---- MODULE Spec2Model ----
(***************************************************************************)
(* Model of the interview orchestrator of Interview-Prep-Helper:           *)
(*   src/agents/langgraph_orchestrator.py  (LangGraphOrchestrator)         *)
(*   src/agents/sme_react.py               (build_sme_node.node)           *)
(*   src/llm.py                            (LLM.invoke)                    *)
(*   src/agents/panel_builder.py           (propose_panel_from_jd)         *)
(*   src/app.py, src/services/db.py        (routes, session store)         *)
(* One action per public operation of the orchestrator.  Each operation    *)
(* runs the compiled graph (route -> sme_i | done -> ...) to completion,   *)
(* exactly as self._app.invoke does.  Texts are sequences of characters so *)
(* that str.strip() and "".join() are computed, not assumed.               *)
(***************************************************************************)
EXTENDS Integers, Sequences, FiniteSets, TLC

VARIABLES
    state,   \* self.state, the InterviewState dictionary
    panel,   \* self.panel, the list of {name, system_prompt}
    app,     \* self._app: TRUE once init_graph has compiled the graph
    ret,     \* outcome of the last call: operation, raised?, returned tuple, requests, events
    script,  \* how the caller has used the session so far (see Script*)
    store,   \* the session's document in the interviews collection (services/db.py)
    task,    \* the background task of /api/next_question_stream (app.py _task)
    proposal, \* the last propose_panel_from_jd call: generated content, result
    given    \* the question the caller was last given (kept by SuccessSpec only)

vars == <<state, panel, app, ret, script, store, task, proposal, given>>

----------------------------------------------------------------------------
(* Bounds of the model *)

\* largest max_turns a session is constructed with
MaxTurnsBound == 2
\* process_user_answer is not explored once turn_index has reached this value
TurnCap == 2
\* process_user_answer is not explored once history holds this many records
HistCap == 2
\* largest number of fragments one streamed generation yields
MaxPieces == 1
\* turn budget of the long sessions of LongSpec
LongTurns == 4
\* process_user_answer is not explored in LongSpec beyond this turn_index / history length
LongCap == 5

\* the graph declares exactly sme_0, sme_1, sme_2 as edge targets
PanelSize == 3

----------------------------------------------------------------------------
(* Values *)

\* a key that is absent from the state dictionary
Unset == <<"<unset>">>
NoAgent == "<unset>"
\* state.get("mode") of a state without the key
NoMode == "<none>"
\* message.content of a completion may be None
NoneVal == <<"<None>">>
\* the generation request raises
Raise == <<"<raise>">>
END == "__end__"

IsSpace(c) == c = " "

\* outcomes of the synchronous llm.invoke of the ask branch: a content or an exception
AskOutcomes == {NoneVal, <<" ", "x">>, Raise}
\* outcomes of the synchronous llm.invoke of the feedback branch
FeedbackOutcomes == {<<"f", " ">>, Raise}
\* outcomes of the generation requests of one operation, one per branch
Outcomes == [ask : AskOutcomes, feedback : FeedbackOutcomes]
\* the same for an operation that resets mode to 'route' before it runs the
\* graph: the feedback branch is out of its reach, only the ask outcome varies
AskOnly(outcomes) == {o \in outcomes : o.feedback = Raise}
\* non-empty fragments a streamed completion yields (empty ones are skipped)
Pieces == {<<" ", "x">>}
\* answers the caller submits
Answers == {<<"a">>}

\* panels a session is started with: the fallback panel of propose_panel_from_jd
Panels ==
    { << [name |-> "Domain Expert"], [name |-> "Systems Expert"], [name |-> "Behavioral Expert"] >> }

\* dict.get(key, default)
Get(v, default) == IF v = Unset THEN default ELSE v
GetAgent(v, default) == IF v = NoAgent THEN default ELSE v

\* x or ""
OrEmpty(v) == IF v = NoneVal THEN <<>> ELSE v

RECURSIVE LStrip(_)
LStrip(t) == IF t # <<>> /\ IsSpace(Head(t)) THEN LStrip(Tail(t)) ELSE t

RECURSIVE RStrip(_)
RStrip(t) ==
    IF t # <<>> /\ IsSpace(t[Len(t)]) THEN RStrip(SubSeq(t, 1, Len(t) - 1)) ELSE t

\* str.strip()
Strip(t) == RStrip(LStrip(t))

RECURSIVE Join(_)
\* "".join(full_text)
Join(ps) == IF ps = <<>> THEN <<>> ELSE Head(ps) \o Join(Tail(ps))

----------------------------------------------------------------------------
(* The graph built by init_graph.  The panel entries of a session carry      *)
(* non-empty names (propose_panel_from_jd substitutes "Expert i" for an      *)
(* empty one), and the state always holds a mode once init_graph has run.    *)

\* route that never looks at force_stop
route_ignores_stop(s) ==
    IF s.turn_index >= s.max_turns
    THEN [s EXCEPT !.mode = "done"]
    ELSE IF s.mode \in {NoMode, "route"}
         THEN LET idx == s.turn_index % Len(panel)
              IN [s EXCEPT !.current_agent = panel[idx + 1].name, !.mode = "ask"]
         ELSE s

\* route that evaluates the stopping conditions only when it is about to pick a speaker
route_stops_only_when_routing(s) ==
    IF s.mode \in {NoMode, "route"}
    THEN IF s.force_stop \/ s.turn_index >= s.max_turns
         THEN [s EXCEPT !.mode = "done"]
         ELSE LET idx == s.turn_index % Len(panel)
              IN [s EXCEPT !.current_agent = panel[idx + 1].name, !.mode = "ask"]
    ELSE s

\* route that picks a speaker whenever mode is 'route' and looks at the stopping
\* conditions only in the other modes
route_asks_before_stopping(s) ==
    IF s.mode \in {NoMode, "route"}
    THEN LET idx == s.turn_index % Len(panel)
         IN [s EXCEPT !.current_agent = panel[idx + 1].name, !.mode = "ask"]
    ELSE IF s.force_stop \/ s.turn_index >= s.max_turns
         THEN [s EXCEPT !.mode = "done"]
         ELSE s

\* route that lets one turn more than max_turns through (> for >=)
route_off_by_one(s) ==
    IF s.force_stop \/ s.turn_index > s.max_turns
    THEN [s EXCEPT !.mode = "done"]
    ELSE IF s.mode \in {NoMode, "route"}
         THEN LET idx == s.turn_index % Len(panel)
              IN [s EXCEPT !.current_agent = panel[idx + 1].name, !.mode = "ask"]
         ELSE s

\* route with the round robin taken over the first two panel entries only
route_two_speakers(s) ==
    IF s.force_stop \/ s.turn_index >= s.max_turns
    THEN [s EXCEPT !.mode = "done"]
    ELSE IF s.mode \in {NoMode, "route"}
         THEN LET idx == s.turn_index % (Len(panel) - 1)
              IN [s EXCEPT !.current_agent = panel[idx + 1].name, !.mode = "ask"]
         ELSE s

\* route that counts the turn when it picks the speaker
route_counts_turn(s) ==
    IF s.force_stop \/ s.turn_index >= s.max_turns
    THEN [s EXCEPT !.mode = "done"]
    ELSE IF s.mode \in {NoMode, "route"}
         THEN LET idx == s.turn_index % Len(panel)
              IN [s EXCEPT !.current_agent = panel[idx + 1].name, !.mode = "ask",
                           !.turn_index = @ + 1]
         ELSE s

\* route node
route(s) ==
    IF s.force_stop \/ s.turn_index >= s.max_turns
    THEN [s EXCEPT !.mode = "done"]
    ELSE IF s.mode \in {NoMode, "route"}
         THEN LET idx == s.turn_index % Len(panel)
              IN [s EXCEPT !.current_agent = panel[idx + 1].name, !.mode = "ask"]
         ELSE s

\* done node
done_node(s) == [s EXCEPT !.mode = "done"]

\* f"sme_{i}": the node added for panel entry i (0-based)
SmeNode(i) == <<"sme_0", "sme_1", "sme_2">>[i + 1]

\* conditional edge leaving route: "done", END or the name of an SME node
from_route_cond(s) ==
    IF s.mode = "done" THEN "done"
    ELSE IF s.current_agent = NoAgent \/ s.current_agent = "" THEN END
    ELSE IF \E i \in 1..Len(panel) : panel[i].name = s.current_agent
         THEN SmeNode((CHOOSE i \in 1..Len(panel) :
                          /\ panel[i].name = s.current_agent
                          /\ \A j \in 1..(i - 1) : panel[j].name # s.current_agent) - 1)
         ELSE "sme_0"

\* conditional edge leaving an SME node
from_sme_cond(s) == IF s.mode = "route" THEN "route" ELSE END

\* SME node, ask branch, given the content the generation request returned
sme_ask(s, content) ==
    [s EXCEPT !.last_question = Strip(OrEmpty(content)), !.mode = "await_answer"]

\* feedback branch that stores the feedback but appends no record to history
sme_feedback_no_record(s, content) ==
    [s EXCEPT !.last_feedback = Strip(OrEmpty(content)), !.mode = "route"]

\* feedback branch that writes its record over the last one of the history
sme_feedback_rewrites_last(s, content) ==
    LET feedback == Strip(OrEmpty(content))
        a == Get(s.user_answer, <<>>)
        rec == [agent |-> GetAgent(s.current_agent, "Expert"),
                question |-> Get(s.last_question, <<>>),
                user_answer |-> a,
                feedback |-> feedback]
    IN [s EXCEPT !.last_feedback = feedback,
                 !.history = IF s.history = <<>> THEN <<rec>>
                             ELSE [s.history EXCEPT ![Len(s.history)] = rec],
                 !.mode = "route"]

\* SME node, feedback branch, given the content the generation request returned
sme_feedback(s, content) ==
    LET feedback == Strip(OrEmpty(content))
        a == Get(s.user_answer, <<>>)
    IN [s EXCEPT !.last_feedback = feedback,
                 !.history = Append(s.history,
                                [agent |-> GetAgent(s.current_agent, "Expert"),
                                 question |-> Get(s.last_question, <<>>),
                                 user_answer |-> a,
                                 feedback |-> feedback]),
                 !.mode = "route"]

\* what a run of the graph hands back to the operation that started it
Ran(s, raised, reqs) == [state |-> s, raised |-> raised, reqs |-> reqs]

(* One run of the compiled graph from node n on state s.  outs.ask and       *)
(* outs.feedback are the outcomes of the generation requests of the two SME  *)
(* branches, reqs the requests the operation has issued so far (kind, node   *)
(* whose prompt is used, fragments the service yielded).  When a             *)
(* request raises, the exception leaves the graph: the state handed back is  *)
(* the one the raising node was given, of which the operation keeps only the *)
(* history list, the object the feedback branch appends to in place.         *)
RECURSIVE RunGraph(_, _, _, _)
RunGraph(n, s, outs, reqs) ==
    IF n = "route" THEN
        LET s1 == route(s)
            nxt == from_route_cond(s1)
        IN IF nxt = END THEN Ran(s1, FALSE, reqs) ELSE RunGraph(nxt, s1, outs, reqs)
    ELSE IF n = "done" THEN
        Ran(done_node(s), FALSE, reqs)
    ELSE IF s.mode \in {"ask", "feedback"} THEN
        LET out == outs[s.mode]
            reqs1 == Append(reqs, [kind |-> s.mode, node |-> n, pieces |-> <<>>])
        IN IF out = Raise
           THEN Ran(s, TRUE, reqs1)
           ELSE LET s1 == IF s.mode = "ask" THEN sme_ask(s, out) ELSE sme_feedback(s, out)
                IN IF from_sme_cond(s1) = "route"
                   THEN RunGraph("route", s1, outs, reqs1)
                   ELSE Ran(s1, FALSE, reqs1)
    ELSE Ran(s, FALSE, reqs)

\* self._app.invoke(s): the graph's entry point is route
Invoke(s, outs, reqs) == RunGraph("route", s, outs, reqs)

\* self.state after an invoke raised: the assignment self.state = ... did not
\* happen, the dictionary is as it was before the call, its history list as
\* the graph left it
AfterRaise(s, r) == [s EXCEPT !.history = r.state.history]

----------------------------------------------------------------------------
(* Caller's script: ghost bookkeeping about the sequence of calls made *)

\* strict alternation next question / answer since init, nothing raised, no stop
ScriptInit == [alternating |-> TRUE, answers |-> 0]

ScriptAfterQuestion(raised) ==
    [script EXCEPT !.alternating = @ /\ ~raised /\ ret.op \in {"init", "answer"}]

ScriptAfterAnswer(raised) ==
    [script EXCEPT !.alternating = @ /\ ~raised /\ ret.op \in {"next", "stream"},
                   !.answers = IF raised THEN @ ELSE @ + 1]

ScriptAfterStop == [script EXCEPT !.alternating = FALSE]

Ret(op, raised, done, agent, question, reqs, events) ==
    [op |-> op, raised |-> raised, done |-> done, agent |-> agent,
     question |-> question, reqs |-> reqs, events |-> events]

----------------------------------------------------------------------------
(* Panel generation (panel_builder.py).  The generated content is given by   *)
(* what json.loads makes of it; JSON values are tagged, texts are strings.   *)

\* longest 'panel' list in a generated content
MaxPanelLen == 4

JNull == [t |-> "null", v |-> ""]
Str(s) == [t |-> "str", v |-> s]
Num(s) == [t |-> "num", v |-> s]

\* Python truth value of a JSON value (None, "" and 0 are false)
Truthy(x) == x # JNull /\ x # Str("") /\ x # Num("0")

\* x or default
Or(x, default) == IF Truthy(x) THEN x ELSE default

\* p.get("name") and p.get("system_prompt") of the objects generated; a key
\* that is missing reads as None
NameVals == {JNull, Str(""), Str("n"), Num("7")}
PromptVals == {JNull, Str("p")}

\* elements of a generated 'panel' list: objects, and one value that is not an
\* object (a string, a number, null or a list: none of them has .get)
NotAnObject == [t |-> "other", name |-> JNull, system_prompt |-> JNull]
Elements ==
    [t : {"obj"}, name : NameVals, system_prompt : PromptVals] \cup {NotAnObject}

\* content for which json.loads raises: not JSON, or None
InvalidJSON == [kind |-> "invalid", has_list |-> FALSE, panel |-> <<>>]
\* JSON that is not an object: data.get raises
NotADict == [kind |-> "other", has_list |-> FALSE, panel |-> <<>>]
\* an object whose 'panel' is missing or is not a list
NoPanelList == [kind |-> "object", has_list |-> FALSE, panel |-> <<>>]

Contents ==
    {InvalidJSON, NotADict, NoPanelList}
        \cup { [kind |-> "object", has_list |-> TRUE, panel |-> l] :
                  l \in UNION {[1..n -> Elements] : n \in 0..MaxPanelLen} }

\* f"Expert {i+1}" for the list positions 1..3
ExpertName == <<"Expert 1", "Expert 2", "Expert 3">>

FallbackPanel ==
    << [name |-> Str("Domain Expert"),
        system_prompt |-> Str("You are a domain expert interviewer.")],
       [name |-> Str("Systems Expert"),
        system_prompt |-> Str("You are a systems design interviewer.")],
       [name |-> Str("Behavioral Expert"),
        system_prompt |-> Str("You are a behavioral interviewer.")] >>

\* the normalised copy of a generated list of objects
Normalised(l) ==
    [k \in 1..Len(l) |->
        [name |-> Or(l[k].name, Str(ExpertName[k])),
         system_prompt |-> Or(l[k].system_prompt,
                              Str("You are a helpful expert interviewer."))]]

\* propose_panel_from_jd without the test of the list's length
propose_panel_any_length(content) ==
    IF /\ content.kind = "object"
       /\ content.has_list
       /\ Len(content.panel) <= PanelSize
       /\ \A k \in 1..Len(content.panel) : content.panel[k].t = "obj"
    THEN Normalised(content.panel)
    ELSE FallbackPanel

\* propose_panel_from_jd(llm, jd_text), given the content llm.invoke returned
propose_panel_from_jd(content) ==
    IF /\ content.kind = "object"
       /\ content.has_list
       /\ Len(content.panel) = PanelSize
       /\ \A k \in 1..Len(content.panel) : content.panel[k].t = "obj"
    THEN Normalised(content.panel)
    ELSE FallbackPanel

\* no call of propose_panel_from_jd is looked at
NoProposal == [content |-> InvalidJSON, returned |-> FALSE, panel |-> <<>>]

----------------------------------------------------------------------------
(* Operations *)

BlankState ==
    [prompts |-> <<>>, resume_notes |-> <<>>,
     history |-> <<>>, turn_index |-> 0, max_turns |-> 0, mode |-> "route",
     force_stop |-> FALSE, current_agent |-> NoAgent, last_question |-> Unset,
     last_feedback |-> Unset, user_answer |-> Unset]

\* resume notes a session is started with
Notes == {<<"r">>}

\* the state dictionary init_graph builds
InitialState(p, mt, notes) ==
    [BlankState EXCEPT !.prompts = p, !.resume_notes = notes, !.max_turns = mt]

\* LangGraphOrchestrator(llm, max_turns).init_graph(panel, resume_notes)
init_graph(p, mt, notes) ==
    /\ panel = p
    /\ app = TRUE
    /\ state = InitialState(p, mt, notes)

\* a session constructed with one of the turn budgets in budgets
InitWith(budgets) ==
    /\ \E p \in Panels, mt \in budgets, notes \in Notes : init_graph(p, mt, notes)
    /\ ret = Ret("init", FALSE, FALSE, NoAgent, <<>>, <<>>, <<>>)
    /\ script = ScriptInit

\* the document of a session that was never saved
NoDoc == [saved |-> FALSE, doc |-> BlankState]

\* no background task is running
IdleTask == [pc |-> "idle", agent |-> NoAgent, reqs |-> <<>>]

\* the orchestrator used on its own: nothing is stored, no task is started
Detached == store = NoDoc /\ task = IdleTask /\ proposal = NoProposal /\ given = Unset

Init == InitWith(0..MaxTurnsBound) /\ Detached

\* next_question()
next_question(outcomes) ==
    /\ app
    /\ \E outs \in AskOnly(outcomes) :
        LET s0 == [state EXCEPT !.mode = "route"]
            r1 == Invoke(s0, outs, <<>>)
            r2 == Invoke(r1.state, outs, r1.reqs)
        IN IF r1.raised
           THEN /\ state' = AfterRaise(s0, r1)
                /\ ret' = Ret("next", TRUE, FALSE, NoAgent, <<>>, r1.reqs, <<>>)
                /\ script' = ScriptAfterQuestion(TRUE)
           ELSE IF r2.raised
           THEN /\ state' = AfterRaise(r1.state, r2)
                /\ ret' = Ret("next", TRUE, FALSE, NoAgent, <<>>, r2.reqs, <<>>)
                /\ script' = ScriptAfterQuestion(TRUE)
           ELSE /\ state' = r2.state
                /\ ret' = Ret("next", FALSE, r2.state.mode = "done",
                              GetAgent(r2.state.current_agent, "Expert"),
                              Get(r2.state.last_question, <<>>), r2.reqs, <<>>)
                /\ script' = ScriptAfterQuestion(FALSE)
    /\ UNCHANGED <<panel, app>>

\* process_user_answer(user_answer)
process_user_answer(outcomes, turnCap, histCap) ==
    /\ app
    /\ state.turn_index < turnCap
    /\ Len(state.history) < histCap
    /\ \E user_answer \in Answers, outs \in outcomes :
        LET s0 == [state EXCEPT !.user_answer = user_answer, !.mode = "feedback"]
            r1 == Invoke(s0, outs, <<>>)
            s1 == [r1.state EXCEPT !.turn_index = @ + 1]
            r2 == Invoke(s1, outs, r1.reqs)
        IN IF r1.raised
           THEN /\ state' = AfterRaise(s0, r1)
                /\ ret' = Ret("answer", TRUE, FALSE, NoAgent, <<>>, r1.reqs, <<>>)
                /\ script' = ScriptAfterAnswer(TRUE)
           ELSE IF r2.raised
           THEN /\ state' = AfterRaise(s1, r2)
                /\ ret' = Ret("answer", TRUE, FALSE, NoAgent, <<>>, r2.reqs, <<>>)
                /\ script' = ScriptAfterAnswer(TRUE)
           ELSE /\ state' = r2.state
                /\ ret' = Ret("answer", FALSE, r2.state.mode = "done", NoAgent, <<>>,
                              r2.reqs, <<>>)
                /\ script' = ScriptAfterAnswer(FALSE)
    /\ UNCHANGED <<panel, app>>

\* stop()
stop ==
    /\ state' = [state EXCEPT !.force_stop = TRUE]
    /\ ret' = Ret("stop", FALSE, FALSE, NoAgent, <<>>, <<>>, <<>>)
    /\ script' = ScriptAfterStop
    /\ UNCHANGED <<panel, app>>

\* fragment sequences one streamed generation can yield
PieceSeqs == UNION {[1..n -> Pieces] : n \in 0..MaxPieces}

\* outcomes of one streamed llm.invoke: the fragments yielded, and whether the
\* request or the iteration raises once they have been yielded
Streams == [pieces : PieceSeqs, breaks : BOOLEAN]

\* socketio.emit(event, {"agent": agent} or {"text": text}, to=room)
Emit(event, agent, text) == [event |-> event, agent |-> agent, text |-> text]

\* the fragments forwarded last first
Chunks_reversed(pieces) ==
    [k \in 1..Len(pieces) |-> Emit("question_chunk", NoAgent, pieces[Len(pieces) + 1 - k])]

\* the 'question_chunk' events of the fragments forwarded, in order
Chunks(pieces) == [k \in 1..Len(pieces) |-> Emit("question_chunk", NoAgent, pieces[k])]

\* stream_next_question(socketio, room)
stream_next_question(outcomes, streams) ==
    /\ \E outs \in AskOnly(outcomes), stream \in streams :
        LET s0 == [state EXCEPT !.mode = "route"]
            r1 == Invoke(s0, outs, <<>>)
            agent == GetAgent(r1.state.current_agent, "Expert")
            start == <<Emit("question_start", agent, <<>>)>>
            reqs == Append(r1.reqs, [kind |-> "stream", node |-> from_route_cond(r1.state),
                                     pieces |-> stream.pieces])
            pieces == stream.pieces
            question == Strip(Join(pieces))
        IN IF r1.raised
           THEN /\ state' = AfterRaise(s0, r1)
                /\ ret' = Ret("stream", TRUE, FALSE, NoAgent, <<>>, r1.reqs, <<>>)
                /\ script' = ScriptAfterQuestion(TRUE)
           ELSE IF r1.state.mode = "done"
           THEN /\ state' = r1.state
                /\ ret' = Ret("stream", FALSE, TRUE, "", <<>>, r1.reqs, <<>>)
                /\ script' = ScriptAfterQuestion(FALSE)
           ELSE IF stream.breaks
           THEN \* the request or the fragment iterator raises after `pieces`
                /\ state' = r1.state
                /\ ret' = Ret("stream", TRUE, FALSE, NoAgent, <<>>, reqs,
                              start \o Chunks(pieces))
                /\ script' = ScriptAfterQuestion(TRUE)
           ELSE /\ state' = [r1.state EXCEPT !.last_question = question,
                                             !.mode = "await_answer"]
                /\ ret' = Ret("stream", FALSE, FALSE, agent, question, reqs,
                              start \o Chunks(pieces) \o <<Emit("question_end", agent, <<>>)>>)
                /\ script' = ScriptAfterQuestion(FALSE)
    /\ UNCHANGED <<panel, app>>

Next ==
    \/ next_question(Outcomes) /\ UNCHANGED <<store, task, proposal, given>>
    \/ stream_next_question(Outcomes, Streams) /\ UNCHANGED <<store, task, proposal, given>>
    \/ process_user_answer(Outcomes, TurnCap, HistCap) /\ UNCHANGED <<store, task, proposal, given>>
    \/ stop /\ UNCHANGED <<store, task, proposal, given>>

Spec == Init /\ [][Next]_vars

----------------------------------------------------------------------------
(* Long sessions: one turn budget, large enough for the round robin to wrap, *)
(* and fewer generation outcomes.                                            *)

LongOutcomes == [ask : {<<" ", "x">>, Raise}, feedback : {<<"f", " ">>, Raise}]

LongStreams == { [pieces |-> << <<" ">>, <<"x">> >>, breaks |-> FALSE],
                 [pieces |-> << <<"x">> >>, breaks |-> TRUE] }

LongInit == InitWith({LongTurns}) /\ Detached

LongNext ==
    \/ next_question(LongOutcomes) /\ UNCHANGED <<store, task, proposal, given>>
    \/ stream_next_question(LongOutcomes, LongStreams) /\ UNCHANGED <<store, task, proposal, given>>
    \/ process_user_answer(LongOutcomes, LongCap, LongCap) /\ UNCHANGED <<store, task, proposal, given>>
    \/ stop /\ UNCHANGED <<store, task, proposal, given>>

LongSpec == LongInit /\ [][LongNext]_vars

----------------------------------------------------------------------------
(* The web application: routes of app.py working on INTERVIEWS[sid] and on   *)
(* the session's document in the store.  The store is taken to be available; *)
(* a failing write is swallowed by the routes and leaves the document as it  *)
(* was.                                                                      *)

\* turn budget of a session of the application (app.py passes max_turns = 8)
AppTurns == 2

\* summary()'s fixed answer for a session without history
NoInterview == <<"No interview conducted.">>

SummaryOutcomes == {NoneVal, <<" ", "s">>, Raise}

\* db_save_state(sid, orchestrator.state): upsert of {sid, state}
db_save_state(s) == [saved |-> TRUE, doc |-> s]

\* summary() that asks for a summary whether or not there is any history
summary_always_generates(outcomes) ==
    /\ app
    /\ \E out \in outcomes :
        LET req == [kind |-> "summary", node |-> END, pieces |-> <<>>]
        IN IF out = Raise
           THEN ret' = Ret("summary", TRUE, FALSE, NoAgent, <<>>, <<req>>, <<>>)
           ELSE ret' = Ret("summary", FALSE, FALSE, NoAgent, Strip(OrEmpty(out)),
                           <<req>>, <<>>)
    /\ UNCHANGED <<state, panel, app, script>>

\* summary()
summary(outcomes) ==
    /\ app
    /\ \E out \in outcomes :
        LET req == [kind |-> "summary", node |-> END, pieces |-> <<>>]
        IN IF state.history = <<>>
           THEN ret' = Ret("summary", FALSE, FALSE, NoAgent, NoInterview, <<>>, <<>>)
           ELSE IF out = Raise
           THEN ret' = Ret("summary", TRUE, FALSE, NoAgent, <<>>, <<req>>, <<>>)
           ELSE ret' = Ret("summary", FALSE, FALSE, NoAgent, Strip(OrEmpty(out)),
                           <<req>>, <<>>)
    /\ UNCHANGED <<state, panel, app, script>>

\* POST /start_interview: a fresh orchestrator, its initial state saved
start_interview ==
    /\ InitWith({AppTurns})
    /\ store = db_save_state(state)
    /\ task = IdleTask
    /\ proposal = NoProposal
    /\ given = Unset

\* POST /api/next_question
api_next_question(outcomes) ==
    /\ next_question(outcomes)
    /\ store' = IF ret'.raised THEN store ELSE db_save_state(state')
    /\ UNCHANGED task

\* POST /api/submit_answer
api_submit_answer(outcomes) ==
    /\ process_user_answer(outcomes, TurnCap, HistCap)
    /\ store' = IF ret'.raised THEN store ELSE db_save_state(state')
    /\ UNCHANGED task

\* POST /api/stop
api_stop ==
    /\ stop
    /\ UNCHANGED <<store, task>>

\* GET /api/summary
api_summary(outcomes) ==
    /\ summary(outcomes)
    /\ UNCHANGED <<store, task>>

\* POST /api/next_question_stream starts _task; this is the task's run of
\* stream_next_question up to the 'question_start' event
stream_route(outcomes) ==
    /\ app
    /\ task.pc = "idle"
    /\ \E outs \in AskOnly(outcomes) :
        LET s0 == [state EXCEPT !.mode = "route"]
            r1 == Invoke(s0, outs, <<>>)
            agent == GetAgent(r1.state.current_agent, "Expert")
        IN IF r1.raised
           THEN /\ state' = AfterRaise(s0, r1)
                /\ ret' = Ret("stream", TRUE, FALSE, NoAgent, <<>>, r1.reqs, <<>>)
                /\ script' = ScriptAfterQuestion(TRUE)
                /\ UNCHANGED <<store, task>>
           ELSE IF r1.state.mode = "done"
           THEN /\ state' = r1.state
                /\ ret' = Ret("stream", FALSE, TRUE, "", <<>>, r1.reqs, <<>>)
                /\ script' = ScriptAfterQuestion(FALSE)
                /\ store' = db_save_state(r1.state)
                /\ UNCHANGED task
           ELSE /\ state' = r1.state
                /\ ret' = Ret("stream_start", FALSE, FALSE, agent, <<>>, r1.reqs,
                              <<Emit("question_start", agent, <<>>)>>)
                /\ script' = ScriptAfterQuestion(FALSE)
                /\ task' = [pc |-> "streaming", agent |-> agent, reqs |-> r1.reqs]
                /\ UNCHANGED store
    /\ UNCHANGED <<panel, app>>

\* the rest of the task: the fragment loop, the state update on whatever
\* self.state is by then, 'question_end', and the save
stream_drain(streams) ==
    /\ task.pc = "streaming"
    /\ \E stream \in streams :
        LET pieces == stream.pieces
            question == Strip(Join(pieces))
            start == <<Emit("question_start", task.agent, <<>>)>>
            reqs == Append(task.reqs, [kind |-> "stream", node |-> END,
                                       pieces |-> pieces])
        IN IF stream.breaks
           THEN /\ ret' = Ret("stream", TRUE, FALSE, NoAgent, <<>>, reqs,
                              start \o Chunks(pieces))
                /\ UNCHANGED <<state, store>>
           ELSE /\ state' = [state EXCEPT !.last_question = question,
                                          !.mode = "await_answer"]
                /\ ret' = Ret("stream", FALSE, FALSE, task.agent, question, reqs,
                              start \o Chunks(pieces)
                                    \o <<Emit("question_end", task.agent, <<>>)>>)
                /\ store' = db_save_state(state')
    /\ task' = IdleTask
    /\ UNCHANGED <<panel, app, script>>

\* rebuilding that leaves the state as init_graph made it
resume_keeps_initial_state ==
    /\ store.saved
    /\ LET snapshot == store.doc
           initial == InitialState(snapshot.prompts, snapshot.max_turns,
                                   snapshot.resume_notes)
       IN /\ panel' = snapshot.prompts
          /\ state' = initial
    /\ task' = IdleTask
    /\ ret' = Ret("resume", FALSE, FALSE, NoAgent, <<>>, <<>>, <<>>)
    /\ UNCHANGED <<app, script, store>>

\* the process restarts and GET /interview rebuilds the session from its
\* document: init_graph on the stored prompts and notes builds InitialState,
\* which `orch.state = state` then replaces by the document read; a task that
\* was running is gone
resume ==
    /\ store.saved
    /\ LET snapshot == store.doc
       IN /\ panel' = snapshot.prompts
          /\ state' = snapshot
    /\ task' = IdleTask
    /\ ret' = Ret("resume", FALSE, FALSE, NoAgent, <<>>, <<>>, <<>>)
    /\ UNCHANGED <<app, script, store>>

AppInit == start_interview

AppNext ==
    \/ api_next_question(LongOutcomes) /\ UNCHANGED <<proposal, given>>
    \/ api_submit_answer(LongOutcomes) /\ UNCHANGED <<proposal, given>>
    \/ api_stop /\ UNCHANGED <<proposal, given>>
    \/ api_summary(SummaryOutcomes) /\ UNCHANGED <<proposal, given>>
    \/ stream_route(LongOutcomes) /\ UNCHANGED <<proposal, given>>
    \/ stream_drain(LongStreams) /\ UNCHANGED <<proposal, given>>
    \/ resume /\ UNCHANGED <<proposal, given>>

AppSpec == AppInit /\ [][AppNext]_vars

----------------------------------------------------------------------------
(* Panel generation on its own: a content is generated, then                 *)
(* propose_panel_from_jd returns its panel.                                  *)

PanelInit ==
    /\ \E c \in Contents : proposal = [content |-> c, returned |-> FALSE, panel |-> <<>>]
    /\ state = BlankState
    /\ panel = <<>>
    /\ app = FALSE
    /\ ret = Ret("init", FALSE, FALSE, NoAgent, <<>>, <<>>, <<>>)
    /\ script = ScriptInit
    /\ store = NoDoc
    /\ task = IdleTask
    /\ given = Unset

analyze_jd ==
    /\ ~proposal.returned
    /\ proposal' = [proposal EXCEPT !.returned = TRUE,
                                    !.panel = propose_panel_from_jd(proposal.content)]
    /\ UNCHANGED <<state, panel, app, ret, script, store, task, given>>

PanelNext == analyze_jd

PanelSpec == PanelInit /\ [][PanelNext]_vars

----------------------------------------------------------------------------
(* The route transition on its own, applied to any state dictionary.        *)

\* largest turn_index of the states route is applied to (max_turns: one more)
MaxRouteTurn == 3

Modes == {NoMode, "route", "ask", "await_answer", "feedback", "done"}

RouteInit ==
    /\ \E p \in Panels : panel = p
    /\ \E m \in Modes, ti \in 0..MaxRouteTurn, mt \in 0..(MaxRouteTurn + 1), fs \in BOOLEAN,
          ca \in {NoAgent, "Domain Expert", "Systems Expert", "Behavioral Expert"} :
          state = [BlankState EXCEPT !.mode = m, !.turn_index = ti, !.max_turns = mt,
                                     !.force_stop = fs, !.current_agent = ca]
    /\ app = TRUE
    /\ ret = Ret("init", FALSE, FALSE, NoAgent, <<>>, <<>>, <<>>)
    /\ script = ScriptInit
    /\ Detached

\* the route node is run once on the state
apply_route ==
    /\ state' = route(state)
    /\ ret' = Ret("route", FALSE, state'.mode = "done", NoAgent, <<>>, <<>>, <<>>)
    /\ UNCHANGED <<panel, app, script, store, task, proposal, given>>

RouteNext == apply_route

RouteSpec == RouteInit /\ [][RouteNext]_vars

----------------------------------------------------------------------------
(* Sessions in which every generation request succeeds, the caller issuing   *)
(* the operations in any order.                                              *)

\* the ask request succeeds (the feedback entry is not read by these calls)
AskSucceeds == [ask : {<<" ", "x">>, <<"y">>}, feedback : {Raise}]
\* both requests of a process_user_answer call succeed
BothSucceed == [ask : {<<" ", "x">>, <<"y">>}, feedback : {<<"f", " ">>}]
\* the streamed request yields its fragments and ends
StreamSucceeds == { [pieces |-> << <<"z">> >>, breaks |-> FALSE] }

\* the question the caller holds once a next-question call has returned: the
\* one returned with done = false, else the one held before
GivenAfter ==
    IF ret'.op \in {"next", "stream"} /\ ~ret'.raised /\ ~ret'.done
    THEN ret'.question
    ELSE given

SuccessInit == InitWith(1..MaxTurnsBound) /\ Detached

SuccessNext ==
    \/ next_question(AskSucceeds) /\ given' = GivenAfter /\ UNCHANGED <<store, task, proposal>>
    \/ stream_next_question(AskSucceeds, StreamSucceeds) /\ given' = GivenAfter /\ UNCHANGED <<store, task, proposal>>
    \/ process_user_answer(BothSucceed, TurnCap, HistCap) /\ UNCHANGED <<store, task, proposal, given>>
    \/ stop /\ UNCHANGED <<store, task, proposal, given>>

SuccessSpec == SuccessInit /\ [][SuccessNext]_vars

----------------------------------------------------------------------------
(* Claims *)

\* name of the panel entry at 0-based position i
PanelName(i) == panel[i + 1].name

(* C1: round-robin routing.  From every reachable turn_index t with          *)
(* force_stop false and t < max_turns, a route step taken in mode 'route'    *)
(* sets current_agent to the name of panel[t mod len(panel)] and mode to     *)
(* 'ask'; and when the caller alternates next_question and                   *)
(* process_user_answer, the agent returned by the k-th next_question that    *)
(* is not done (k answers processed before it) is panel[k mod 3].            *)
C1_RoundRobin ==
    /\ LET s == [state EXCEPT !.mode = "route"]
       IN (~s.force_stop /\ s.turn_index < s.max_turns)
            => /\ route(s).current_agent = PanelName(s.turn_index % Len(panel))
               /\ route(s).mode = "ask"
    /\ (script.alternating /\ ret.op = "next" /\ ~ret.done)
         => /\ ret.agent = PanelName(script.answers % PanelSize)
            /\ state.current_agent = ret.agent

\* the fourth question of an alternating session is asked by the first entry again
C1_Witness ==
    /\ script.alternating /\ ret.op = "next" /\ ~ret.done
    /\ script.answers = 3
    /\ ret.agent = PanelName(0)


(* C2: submitting an answer in any mode other than 'await_answer' fails      *)
(* with an error and leaves every state field unchanged.                     *)
C2_AnswerRejectedUnlessAwaited ==
    [][(ret'.op = "answer" /\ state.mode # "await_answer")
          => (ret'.raised /\ state' = state)]_vars

(* C3: in every reachable state 0 <= turn_index <= max_turns, and a routing  *)
(* step taken with turn_index = max_turns sets mode to 'done'.               *)
C3_TurnIndexWithinBudget ==
    /\ 0 <= state.turn_index
    /\ state.turn_index <= state.max_turns
    /\ state.turn_index = state.max_turns => route(state).mode = "done"

(* C4: once force_stop is true, the next next_question, stream_next_question *)
(* or process_user_answer call does not raise, leaves mode = 'done' and      *)
(* reports done = true, whatever turn_index is.                              *)
C4_StopEndsSession ==
    [][(state.force_stop /\ ret'.op \in {"next", "stream", "answer"})
          => (~ret'.raised /\ ret'.done /\ state'.mode = "done")]_vars

\* a call made after stop() reported done although turns were left
C4_Witness ==
    /\ state.force_stop
    /\ ret.op \in {"next", "stream", "answer"}
    /\ ret.done
    /\ state.mode = "done"
    /\ state.turn_index < state.max_turns

(* C5: 'done' is terminal.  From a state with mode = 'done' no operation     *)
(* leaves mode different from 'done', changes current_agent or changes       *)
(* history.                                                                  *)
C5_DoneIsTerminal ==
    [][state.mode = "done"
          => /\ state'.mode = "done"
             /\ state'.current_agent = state.current_agent
             /\ state'.history = state.history]_vars

\* an answer was submitted to a session that was already done after its last turn
C5_Witness ==
    /\ state.mode = "done"
    /\ ret.op = "answer"
    /\ ~state.force_stop
    /\ state.turn_index > state.max_turns
    /\ state.history # <<>>

(* C6: after N full turns (next question, then answer, nothing raised, no    *)
(* stop) with N <= max_turns, history holds N records and turn_index = N.    *)
C6_HistoryCountsTurns ==
    (script.alternating /\ ret.op = "answer" /\ script.answers <= state.max_turns)
        => /\ Len(state.history) = script.answers
           /\ state.turn_index = script.answers

\* the whole turn budget of a long session was used in full turns
C6_Witness ==
    /\ script.alternating /\ ret.op = "answer"
    /\ script.answers = state.max_turns
    /\ script.answers >= 3
    /\ Len(state.history) = script.answers

(* C7: when the caller alternates next question and answer, nothing raises   *)
(* and nobody stops the session, a call reports done exactly when max_turns  *)
(* answers have been processed: the answers before the max_turns-th return   *)
(* done = false, the max_turns-th returns done = true and leaves mode =      *)
(* 'done', and with max_turns = 0 the first next_question reports done.      *)
C7_DoneAfterMaxTurnsAnswers ==
    (script.alternating /\ ret.op \in {"next", "stream", "answer"})
        => /\ ret.done <=> script.answers >= state.max_turns
           /\ ret.done <=> state.mode = "done"

\* the second answer of a two-turn session reported done
C7_Witness ==
    /\ script.alternating /\ ret.op = "answer"
    /\ state.max_turns = 2 /\ script.answers = 2
    /\ ret.done /\ state.mode = "done"

(* C8: when a generation request made during process_user_answer raises,     *)
(* history and turn_index are after the call what they were before it.       *)
C8_FailedAnswerLeavesHistory ==
    [][(ret'.op = "answer" /\ ret'.raised)
          => /\ state'.history = state.history
             /\ state'.turn_index = state.turn_index]_vars

(* C9: an empty or missing generation result in the ask transition is a      *)
(* failure: no next-question call returns normally with an empty question    *)
(* stored in last_question and mode advanced to 'await_answer'.              *)
C9_EmptyQuestionIsFailure ==
    ~ /\ ret.op \in {"next", "stream"}
      /\ ~ret.raised
      /\ state.mode = "await_answer"
      /\ state.last_question = <<>>

(* C10: when a generation request raises during next_question,               *)
(* stream_next_question or process_user_answer, mode after the call equals   *)
(* mode before the call.                                                     *)
C10_FailureKeepsMode ==
    [][ret'.raised => state'.mode = state.mode]_vars

(* C11: after a process_user_answer that returns done = false (the caller    *)
(* alternating next question and answer, nothing raised), current_agent is   *)
(* the name of panel[turn_index mod 3] for the incremented turn_index.       *)
C11_AgentAdvancedAfterAnswer ==
    (script.alternating /\ ret.op = "answer" /\ ~ret.raised /\ ~ret.done)
        => state.current_agent = PanelName(state.turn_index % PanelSize)

(* C12: a stream_next_question call that returns with done = false has       *)
(* emitted exactly one 'question_start' carrying the routed current_agent,   *)
(* then one 'question_chunk' per fragment the service yielded, in the order  *)
(* yielded, then exactly one 'question_end' for the same agent, and nothing  *)
(* else; the stored last_question is the concatenation of the fragments in   *)
(* order, trimmed.                                                           *)
C12_StreamEventsInOrder ==
    (ret.op = "stream" /\ ~ret.raised /\ ~ret.done)
        => LET produced == ret.reqs[Len(ret.reqs)].pieces
               n == Len(ret.events)
           IN /\ n = Len(produced) + 2
              /\ state.current_agent = PanelName(state.turn_index % PanelSize)
              /\ ret.agent = state.current_agent
              /\ ret.events[1] = Emit("question_start", state.current_agent, <<>>)
              /\ \A k \in 1..Len(produced) :
                    ret.events[k + 1] = Emit("question_chunk", NoAgent, produced[k])
              /\ ret.events[n] = Emit("question_end", state.current_agent, <<>>)
              /\ state.last_question = Strip(Join(produced))
              /\ ret.question = state.last_question

\* two different fragments were streamed for the second speaker and stored trimmed
C12_Witness ==
    /\ ret.op = "stream" /\ ~ret.raised /\ ~ret.done
    /\ ret.reqs[Len(ret.reqs)].pieces = << <<" ">>, <<"x">> >>
    /\ Len(ret.events) = 4
    /\ ret.events[1].agent = PanelName(1)
    /\ state.last_question = <<"x">>

(* C13: when force_stop is true or turn_index >= max_turns at the start of   *)
(* next_question or stream_next_question, the call issues no generation      *)
(* request, emits no event, does not raise and reports done = true.          *)
C13_FinishedSessionSkipsGeneration ==
    [][(ret'.op \in {"next", "stream"}
          /\ (state.force_stop \/ state.turn_index >= state.max_turns))
          => /\ ret'.reqs = <<>>
             /\ ret'.events = <<>>
             /\ ~ret'.raised
             /\ ret'.done]_vars

\* a streamed next question asked after the last turn of the budget reported done
C13_Witness ==
    /\ ret.op = "stream" /\ ret.done
    /\ ret.reqs = <<>> /\ ret.events = <<>>
    /\ ~state.force_stop
    /\ state.turn_index = state.max_turns
    /\ state.turn_index > 0

(* C14: stream_next_question writes mode 'await_answer' and last_question    *)
(* only after the last fragment was forwarded: a call whose fragment         *)
(* sequence fails leaves the session not awaiting an answer and              *)
(* last_question as it was before the call.                                  *)
C14_BrokenStreamNotAwaiting ==
    [][(/\ ret'.op = "stream" /\ ret'.raised
        /\ \E k \in 1..Len(ret'.reqs) : ret'.reqs[k].kind = "stream")
          => /\ state'.mode # "await_answer"
             /\ state'.last_question = state.last_question]_vars

(* C17: process_user_answer on an awaited answer issues the feedback request *)
(* and no other generation request, makes no ask transition, and leaves      *)
(* last_question unchanged.                                                  *)
C17_AnswerOnlyRequestsFeedback ==
    [][(ret'.op = "answer" /\ ~ret'.raised /\ state.mode = "await_answer")
          => /\ Len(ret'.reqs) = 1
             /\ ret'.reqs[1].kind = "feedback"
             /\ state'.last_question = state.last_question]_vars

(* C18: a next-question operation that returns not done issued exactly one   *)
(* generation request: next_question a synchronous ask request,              *)
(* stream_next_question an incremental request and no synchronous one.       *)
C18_OneRequestPerQuestion ==
    (ret.op \in {"next", "stream"} /\ ~ret.raised /\ ~ret.done)
        => /\ Len(ret.reqs) = 1
           /\ ret.reqs[1].kind = (IF ret.op = "next" THEN "ask" ELSE "stream")

(* C15: after every operation of the application that completed (start      *)
(* interview, next question, streamed next question, submit answer, force    *)
(* stop) the session's stored document equals the in-memory state.           *)
C15_StoreEqualsState ==
    (ret.op \in {"init", "next", "stream", "answer", "stop"}
        /\ ~ret.raised /\ task.pc = "idle")
        => (store.saved /\ store.doc = state)

(* C16: while a streamed next question is between its routing step and its   *)
(* final state update, no next_question, process_user_answer or stop is      *)
(* performed on the session.                                                 *)
C16_NothingInterleavesWithStream ==
    [][task.pc = "streaming" => ret'.op \notin {"next", "answer", "stop"}]_vars

(* C20: summary() on an empty history returns 'No interview conducted.' and  *)
(* issues no generation request; on a non-empty history it issues exactly    *)
(* one generation request; in both cases the state is not modified.          *)
C20_SummaryOnlyReads ==
    [][ret'.op = "summary"
          => /\ state' = state
             /\ IF state.history = <<>>
                THEN /\ ~ret'.raised
                     /\ ret'.question = NoInterview
                     /\ ret'.reqs = <<>>
                ELSE /\ Len(ret'.reqs) = 1
                     /\ ret'.reqs[1].kind = "summary"]_vars

\* a summary was generated for a session with two recorded turns
C20_Witness ==
    /\ ret.op = "summary" /\ ~ret.raised
    /\ Len(state.history) = 2
    /\ Len(ret.reqs) = 1
    /\ ret.question = <<"s">>

\* the generated content is not a 'panel' list of exactly three objects
Malformed(content) ==
    \/ content.kind # "object"
    \/ ~content.has_list
    \/ Len(content.panel) # PanelSize
    \/ \E k \in 1..Len(content.panel) : content.panel[k].t # "obj"

(* C19: propose_panel_from_jd returns exactly 3 entries, each with a         *)
(* non-empty name and a non-empty instruction; when the generated content is *)
(* not valid JSON, has no 'panel' list, has a list of another length or a    *)
(* list with an element that is not an object, it returns the fallback panel.*)
C19_PanelHasThreeEntries ==
    proposal.returned
        => /\ Len(proposal.panel) = PanelSize
           /\ \A k \in 1..Len(proposal.panel) :
                 /\ proposal.panel[k].name \notin {JNull, Str("")}
                 /\ proposal.panel[k].system_prompt \notin {JNull, Str("")}
           /\ Malformed(proposal.content) => proposal.panel = FallbackPanel

\* a generated list of three objects, the second without a name and the third
\* without an instruction, was returned with the defaults filled in
C19_Witness ==
    /\ proposal.returned
    /\ ~Malformed(proposal.content)
    /\ proposal.content.panel[1].name = Str("n")
    /\ proposal.content.panel[2].name = Str("")
    /\ proposal.content.panel[3].system_prompt = JNull
    /\ proposal.panel[1].name = Str("n")
    /\ proposal.panel[2].name = Str("Expert 2")
    /\ proposal.panel[3].system_prompt = Str("You are a helpful expert interviewer.")

(* C21: route is idempotent: from every mode, turn_index and force_stop,     *)
(* applying route twice gives the same state as applying it once.            *)
C21_RouteIdempotent == route(route(state)) = route(state)

\* route picked the speaker of turn 3 (the round robin has wrapped) and a
\* further application leaves that state as it is
C21_Witness ==
    /\ ret.op = "route"
    /\ state.mode = "ask"
    /\ state.turn_index = 3
    /\ state.current_agent = PanelName(0)
    /\ route(state) = state

\* sequence a is a prefix of sequence b
IsPrefix(a, b) == Len(a) <= Len(b) /\ \A k \in 1..Len(a) : a[k] = b[k]

(* C22: history is append-only: across next_question, stream_next_question,  *)
(* process_user_answer, stop and summary the history before the operation is *)
(* a prefix of the history after it (no record is changed or removed), and a *)
(* process_user_answer call appends at most one record.                      *)
C22_HistoryAppendOnly ==
    [][ret'.op \in {"next", "stream_start", "stream", "answer", "stop", "summary"}
          => /\ IsPrefix(state.history, state'.history)
             /\ Len(state'.history) <= Len(state.history) + 1]_vars

\* the second answer was recorded behind the first one
C22_Witness ==
    /\ ret.op = "answer" /\ ~ret.raised
    /\ Len(state.history) = 2
    /\ state.history[1].agent = PanelName(0)
    /\ state.history[2].agent = PanelName(1)

(* C23: a session rebuilt from its stored document has mode, turn_index,     *)
(* history, panel, resume_notes, max_turns and force_stop equal to the       *)
(* document last written (rebuilding resets none of them), and the next      *)
(* next_question that returns a question takes it from                       *)
(* panel[turn_index mod 3] for the stored turn_index.                        *)
C23_ResumeRoundTrip ==
    [][/\ ret'.op = "resume"
          => /\ store' = store
             /\ \A k \in {"mode", "turn_index", "history", "prompts", "resume_notes",
                          "max_turns", "force_stop"} : state'[k] = store.doc[k]
             /\ panel' = store.doc.prompts
       /\ (ret.op = "resume" /\ ret'.op = "next" /\ ~ret'.raised /\ ~ret'.done)
          => /\ ret'.agent = store.doc.prompts[(store.doc.turn_index % PanelSize) + 1].name
             /\ state'.current_agent = ret'.agent]_vars

\* a session was rebuilt from the document written after its first answer
C23_Witness ==
    /\ ret.op = "resume"
    /\ state = store.doc
    /\ state.turn_index = 1
    /\ Len(state.history) = 1
    /\ state.mode = "await_answer"
    /\ ~state.force_stop
    /\ state.prompts = panel /\ Len(panel) = PanelSize
    /\ state.resume_notes = <<"r">>

(* C24: with every generation succeeding, in every state between operations *)
(* turn_index equals the number of records in history, whatever sequence of  *)
(* next_question, stream_next_question, process_user_answer and stop calls   *)
(* was made.                                                                 *)
C24_TurnIndexCountsHistory == state.turn_index = Len(state.history)

(* C25: in every reachable state the record at position k of history        *)
(* (counted from 0) names panel[k mod 3] as its agent, whatever order        *)
(* next_question and process_user_answer are called in.                      *)
C25_RecordedSpeakersRoundRobin ==
    \A k \in 1..Len(state.history) :
        state.history[k].agent = PanelName((k - 1) % PanelSize)

(* C26: the question stored in a Turn Record that process_user_answer        *)
(* appends is the question returned by the most recent next_question or      *)
(* stream_next_question call before that answer.                             *)
C26_AnswerAttachedToGivenQuestion ==
    [][(ret'.op = "answer" /\ Len(state'.history) > Len(state.history))
          => state'.history[Len(state'.history)].question = given]_vars

====
